---- MODULE Spec2Model ----
(***************************************************************************)
(* Conversation store (src/database.py) and the compaction cycle that is   *)
(* built on it.  Every function of database.py opens its own connection    *)
(* (get_conn) and commits when its `with` block ends, so one function call *)
(* is one transaction; save_message is the exception that matters: its     *)
(* SELECT runs before the implicit BEGIN that the INSERT opens, so the     *)
(* read and the write are two steps that other connections can interleave. *)
(* The session functions of src/utils/chat_history.py (SpecChat) and the   *)
(* collection setup of src/embeddings/vector_store.py (SpecVector) are     *)
(* modelled beside it, each on variables of its own.                       *)
(***************************************************************************)
EXTENDS Integers, Sequences, FiniteSets, TLC

VARIABLES conversations, messages, summaries, pc, local, failed,
          session, gemini, qdrant, setup

vars == <<conversations, messages, summaries, pc, local, failed,
          session, gemini, qdrant, setup>>

\* the session dictionary of chat_history.py with the last call to Gemini,
\* and the Qdrant collection with the run of setup_sss_vectordb
chat == <<session, gemini>>
vector == <<qdrant, setup>>

store == <<conversations, messages, summaries>>

(* ------------------------------ bounds --------------------------------- *)

\* rows the messages table may hold in the concurrent specification
MaxMsgs == 4
\* rows the messages table may hold in the one-caller specification
MaxMsgsSeq == 9
\* rows the messages table may hold with one caller and two conversations
MaxMsgsTwo == 8
\* rows the messages table may hold in the specification with fairness
MaxMsgsLive == 8
\* rows the summaries table may hold
MaxChunks == 2
\* entries state["history"] may hold before get_last_user_message is called
MaxHistory == 4
\* tokens the stored summary may hold before get_last_user_message is called
MaxSummary == 12
\* calls of setup_sss_vectordb
MaxSetups == 2

(* ------------------------------ inputs --------------------------------- *)

Procs == {"p1", "p2"}
Convs == {"c1", "c2"}
ConcRoles == {"user"}
ConcFieldMaps == {<<>>}
\* the limit of get_unarchived (8 is its default) the context is assembled with
TailSizes == {2, 8}
SeqTailSizes == {8}
SeqProcs == {"p1"}
SeqConvs == {"c1"}
Users == {"u1"}
Roles == {"user", "assistant"}
Texts == {"hi"}

\* LIMIT 4 of next_four_unarchived
BatchSize == 4

\* what call_gemini can do: raise (error, timeout), return "" or return text
GeminiResponses ==
    {[ok |-> FALSE, content |-> <<>>],
     [ok |-> TRUE, content |-> <<>>],
     [ok |-> TRUE, content |-> <<"s1">>]}
FailedText == <<"Failed to generate summary.">>

\* get_last_user_message: its messages, and small values of batch_size and
\* tail_size (15 and 6 by default); last_n_message of summarize_session_history
\* (5 by default, 0 for the whole history)
ChatTexts == {"hi", "ok"}
BatchSizes == {2}
ChatTailSizes == {1}
LastNs == {0, 2, 5}

\* the **fields of upsert_conversation, as (column, value) pairs in call order
FieldMaps == {<<>>, << <<"active_agent", "billing">> >>}

(* ------------------------------ helpers -------------------------------- *)

Max(S) == CHOOSE x \in S : \A y \in S : y <= x

Range(f) == {f[i] : i \in DOMAIN f}

\* row ids (AUTOINCREMENT, nothing is ever deleted: the id is the position)
Ids == 1..Len(messages)

RowsOf(msgs, c) == {i \in 1..Len(msgs) : msgs[i].conversation_id = c}

UnarchivedOf(msgs, c) == {i \in RowsOf(msgs, c) : msgs[i].archived = 0}

ArchivedOf(msgs, c) == {i \in RowsOf(msgs, c) : msgs[i].archived = 1}

\* ORDER BY idx over the index (conversation_id, idx): ties come in rowid order
Before(msgs, i, j) ==
    \/ msgs[i].idx < msgs[j].idx
    \/ msgs[i].idx = msgs[j].idx /\ i < j

RECURSIVE OrderByIdxAsc(_, _)
OrderByIdxAsc(msgs, S) ==
    IF S = {} THEN <<>>
    ELSE LET m == CHOOSE i \in S : \A j \in S \ {i} : Before(msgs, i, j)
         IN  <<m>> \o OrderByIdxAsc(msgs, S \ {m})

Limit(s, n) == IF Len(s) <= n THEN s ELSE SubSeq(s, 1, n)

\* the idx column of the rows of a conversation, in insertion (rowid) order
IdxColumn(msgs, c) ==
    LET rows == SelectSeq(msgs, LAMBDA r : r.conversation_id = c)
    IN  [k \in 1..Len(rows) |-> rows[k].idx]

ChunksOf(sums, c) == SelectSeq(sums, LAMBDA r : r.conversation_id = c)

(* --------------------------- database.py ------------------------------- *)

\* INSERT INTO conversations(id, user_id): the other columns take their DEFAULT
DefaultRow(u) ==
    [user_id |-> u, active_agent |-> "general",
     pending_switch |-> "NULL", running_summary |-> <<>>]

Exists(convs, c) == c \in DOMAIN convs

\* for k, v in fields.items(): UPDATE conversations SET k=v WHERE id=?
RECURSIVE ApplyFields(_, _)
ApplyFields(row, fields) ==
    IF fields = <<>> THEN row
    ELSE ApplyFields([row EXCEPT ![fields[1][1]] = fields[1][2]], Tail(fields))

\* INSERT OR REPLACE: an existing row is overwritten by a fresh one
upsert_conversation_replace(convs, c, u, fields) ==
    [x \in DOMAIN convs \cup {c} |->
        IF x = c THEN ApplyFields(DefaultRow(u), fields) ELSE convs[x]]

\* one transaction in the model: with no **fields, a caller that loses the
\* race for a new id fails on the PRIMARY KEY and writes nothing
upsert_conversation(convs, c, u, fields) ==
    LET row == IF Exists(convs, c) THEN convs[c] ELSE DefaultRow(u)
    IN  [x \in DOMAIN convs \cup {c} |->
            IF x = c THEN ApplyFields(row, fields) ELSE convs[x]]

\* MAX(idx) taken over the unarchived rows only
next_idx_unarchived(msgs, c) ==
    IF UnarchivedOf(msgs, c) = {} THEN 0
    ELSE Max({msgs[i].idx : i \in UnarchivedOf(msgs, c)}) + 1

\* SELECT COALESCE(MAX(idx), -1)+1 FROM messages WHERE conversation_id=?
\* MAX(idx) taken over the whole table: the WHERE conversation_id=? is dropped
next_idx_all(msgs, c) ==
    IF msgs = <<>> THEN 0
    ELSE Max({msgs[i].idx : i \in 1..Len(msgs)}) + 1

next_idx(msgs, c) ==
    IF RowsOf(msgs, c) = {} THEN 0
    ELSE Max({msgs[i].idx : i \in RowsOf(msgs, c)}) + 1

insert_message(msgs, c, idx, role, text) ==
    Append(msgs, [conversation_id |-> c, idx |-> idx, role |-> role,
                  text |-> text, archived |-> 0])

\* SELECT *: a row with its id
Row(msgs, i) ==
    [id |-> i, conversation_id |-> msgs[i].conversation_id,
     idx |-> msgs[i].idx, role |-> msgs[i].role, text |-> msgs[i].text,
     archived |-> msgs[i].archived]

\* ORDER BY idx ASC LIMIT ?: the oldest rows in place of the newest
get_unarchived_oldest(msgs, c, limit) ==
    LET asc == OrderByIdxAsc(msgs, UnarchivedOf(msgs, c))
        k == IF limit < 0 \/ limit > Len(asc) THEN Len(asc) ELSE limit
    IN  [j \in 1..k |-> Row(msgs, asc[j])]

\* the LIMIT is dropped
get_unarchived_nolimit(msgs, c, limit) ==
    LET asc == OrderByIdxAsc(msgs, UnarchivedOf(msgs, c))
    IN  [j \in 1..Len(asc) |-> Row(msgs, asc[j])]

\* WHERE conversation_id=? only: the archived flag is not looked at
get_unarchived_any(msgs, c, limit) ==
    LET asc == OrderByIdxAsc(msgs, RowsOf(msgs, c))
        n == Len(asc)
        k == IF limit < 0 \/ limit > n THEN n ELSE limit
    IN  [j \in 1..k |-> Row(msgs, asc[n - k + j])]

\* ORDER BY idx DESC LIMIT ? (a negative LIMIT is no limit), then [::-1]
get_unarchived(msgs, c, limit) ==
    LET asc == OrderByIdxAsc(msgs, UnarchivedOf(msgs, c))
        n == Len(asc)
        k == IF limit < 0 \/ limit > n THEN n ELSE limit
    IN  [j \in 1..k |-> Row(msgs, asc[n - k + j])]

\* ORDER BY idx DESC LIMIT 4, reversed: the newest four in place of the oldest
next_four_unarchived_newest(msgs, c) ==
    LET asc == OrderByIdxAsc(msgs, UnarchivedOf(msgs, c))
        rows == IF Len(asc) <= BatchSize THEN asc
                ELSE SubSeq(asc, Len(asc) - BatchSize + 1, Len(asc))
    IN  IF Len(rows) = BatchSize THEN rows ELSE <<>>

\* the rows are returned whatever their number
next_four_unarchived_partial(msgs, c) ==
    Limit(OrderByIdxAsc(msgs, UnarchivedOf(msgs, c)), BatchSize)

next_four_unarchived(msgs, c) ==
    LET rows == Limit(OrderByIdxAsc(msgs, UnarchivedOf(msgs, c)), BatchSize)
    IN  IF Len(rows) = BatchSize THEN rows ELSE <<>>

\* WHERE id <= (the largest id given) in place of WHERE id IN (...)
archive_ids_upto(msgs, ids) ==
    IF ids = {} THEN msgs
    ELSE [i \in 1..Len(msgs) |->
            IF i <= Max(ids) THEN [msgs[i] EXCEPT !.archived = 1] ELSE msgs[i]]

\* WHERE id = ? with the first id in place of WHERE id IN (...)
archive_ids_first(msgs, ids) ==
    IF ids = {} THEN msgs
    ELSE [i \in 1..Len(msgs) |->
            IF \A j \in ids : i <= j
            THEN [msgs[i] EXCEPT !.archived = 1] ELSE msgs[i]]

archive_ids(msgs, ids) ==
    IF ids = {} THEN msgs
    ELSE [i \in 1..Len(msgs) |->
            IF i \in ids THEN [msgs[i] EXCEPT !.archived = 1] ELSE msgs[i]]

\* INSERT OR REPLACE keyed by the conversation: its earlier chunks are dropped
append_chunk_summary_replace(sums, c, start_idx, end_idx, summary) ==
    Append(SelectSeq(sums, LAMBDA r : r.conversation_id # c),
           [conversation_id |-> c, start_idx |-> start_idx,
            end_idx |-> end_idx, summary |-> summary])

append_chunk_summary(sums, c, start_idx, end_idx, summary) ==
    Append(sums, [conversation_id |-> c, start_idx |-> start_idx,
                  end_idx |-> end_idx, summary |-> summary])

get_running_summary(convs, c) ==
    IF Exists(convs, c) THEN convs[c].running_summary ELSE <<>>

\* UPDATE conversations SET running_summary=? WHERE id=?: no row, no change
set_running_summary(convs, c, summary) ==
    IF Exists(convs, c) THEN [convs EXCEPT ![c].running_summary = summary]
    ELSE convs

(* ------------------------- chat_history.py ----------------------------- *)

\* the exception of call_gemini is caught and answered like an empty response
summarize_session_history_swallow(resp) ==
    IF resp.ok /\ resp.content # <<>>
    THEN [raised |-> FALSE, value |-> resp.content]
    ELSE [raised |-> FALSE, value |-> FailedText]

\* the exception of call_gemini is caught and its empty result returned as is
summarize_session_history_empty(resp) ==
    [raised |-> FALSE, value |-> resp.content]

\* lines 130-137: an exception of call_gemini propagates; an empty answer is
\* replaced by the text "Failed to generate summary."
summarize_session_history(resp) ==
    IF ~resp.ok THEN [raised |-> TRUE, value |-> <<>>]
    ELSE IF resp.content # <<>> THEN [raised |-> FALSE, value |-> resp.content]
    ELSE [raised |-> FALSE, value |-> FailedText]

\* a text is a sequence of tokens; NL is the newline
NL == "\n"

RECURSIVE JoinLines(_)
\* "\n".join(lines)
JoinLines(lines) ==
    IF lines = <<>> THEN <<>>
    ELSE IF Len(lines) = 1 THEN lines[1]
    ELSE lines[1] \o <<NL>> \o JoinLines(Tail(lines))

RECURSIVE Strip(_)
\* str.strip(): the newlines at both ends are removed
Strip(t) ==
    IF t = <<>> THEN <<>>
    ELSE IF Head(t) = NL THEN Strip(Tail(t))
    ELSE IF t[Len(t)] = NL THEN Strip(SubSeq(t, 1, Len(t) - 1))
    ELSE t

\* the state dictionary: has_history says whether the key "history" is set;
\* an entry is a dictionary of which the functions read role and message
EmptyState ==
    [has_history |-> FALSE, history |-> <<>>, chat_history |-> <<>>,
     chat_summary |-> <<>>]

Entry(role, message) == [role |-> role, message |-> message]

\* state.get("history", [])
GetHistory(st) == IF st.has_history THEN st.history ELSE <<>>

\* history[-n:] if n > 0 else history
LastN(history, n) ==
    IF n > 0 /\ n < Len(history)
    THEN SubSeq(history, Len(history) - n + 1, Len(history))
    ELSE history

NoHistory == <<"No history available.">>

RoleTag(role) == IF role = "user" THEN "user" ELSE "assistant"

get_all_session_history(st, number) ==
    LET history == GetHistory(st)
    IN  IF history = <<>> THEN NoHistory
        ELSE JoinLines([k \in 1..Len(history) |->
                 (IF number THEN <<ToString(k), ". ">> ELSE <<>>)
                 \o <<RoleTag(history[k].role), ": ", history[k].message>>])

\* f"Summarize the following conversation:\n\n{conversation}\n\nSummary:"
PromptOf(conversation) ==
    <<"Summarize the following conversation:", NL, NL>>
        \o conversation \o <<NL, NL, "Summary:">>

\* lines 95-128: whether call_gemini is reached, and with which prompt; the
\* recent messages are handed over under the key "chat_history"
summarize_session_history_prompt(st, last_n_message) ==
    LET history == GetHistory(st)
        recent_messages == LastN(history, last_n_message)
    IN  IF recent_messages = <<>>
        THEN [called |-> FALSE, prompt |-> <<>>]
        ELSE [called |-> TRUE,
              prompt |-> PromptOf(get_all_session_history(
                             [EmptyState EXCEPT !.chat_history = recent_messages],
                             FALSE))]

\* lines 168-198.  history is the list object of state["history"] when that
\* key is set, so the append is seen through the state; otherwise it is a new
\* list that is stored under "chat_history" only.  Line 186 hands a list to
\* summarize_session_history, whose line 95 calls .get on it: AttributeError,
\* raised after the history was updated and before the summary is stored.
get_last_user_message(st, role, message, batch_size, tail_size) ==
    LET history == Append(GetHistory(st), Entry(role, message))
        st1 == [st EXCEPT !.history = IF st.has_history THEN history ELSE @,
                          !.chat_history = history]
        summary == st.chat_summary
        new_messages == <<role, ": ", message, NL>>
        updated_summary ==
            summary \o (IF summary # <<>> THEN summary \o <<NL>> ELSE <<>>)
                \o new_messages
    IN  IF Len(history) > batch_size
        THEN [raised |-> TRUE, state |-> st1]
        ELSE [raised |-> FALSE,
              state |-> [st1 EXCEPT !.chat_summary = Strip(updated_summary)]]

(* -------------------------- vector_store.py ---------------------------- *)

\* what create_embeddings_from_csv (or its import) can do: raise, return []
\* or return records with ids "0", "1", ... and vectors of one dimension
EmbeddingOutcomes ==
    {[raised |-> TRUE, data |-> <<>>],
     [raised |-> FALSE, data |-> <<>>],
     [raised |-> FALSE, data |-> <<[id |-> 0, dim |-> 2]>>],
     [raised |-> FALSE, data |-> <<[id |-> 0, dim |-> 3], [id |-> 1, dim |-> 3]>>]}

\* the collection "turkcell_sss" does not exist
NoCollection == [exists |-> FALSE, size |-> 0, points |-> {}]

\* the collection "turkcell_sss" a run starts from, if there is one
OldCollection == [exists |-> TRUE, size |-> 2, points |-> {0, 1, 2}]

\* collection_exists, lines 107-113: False when the client raises
collection_exists(q, ok) == ok /\ q.exists

\* delete_collection, lines 125-131: False when the client raises
delete_collection(q, ok) ==
    IF ok THEN [ret |-> TRUE, q |-> NoCollection] ELSE [ret |-> FALSE, q |-> q]

\* create_collection, lines 74-95: the client raises when it cannot reach
\* the server or when the collection exists already; the method returns False
create_collection(q, vector_size, ok) ==
    IF ok /\ ~q.exists
    THEN [ret |-> TRUE,
          q |-> [exists |-> TRUE, size |-> vector_size, points |-> {}]]
    ELSE [ret |-> FALSE, q |-> q]

\* add_points_batch, lines 179-219: one upsert of all points; the client
\* raises when the collection is missing or a vector has another dimension
add_points_batch(q, data, ok) ==
    IF ok /\ q.exists /\ \A k \in 1..Len(data) : data[k].dim = q.size
    THEN [ret |-> TRUE,
          q |-> [q EXCEPT !.points = @ \cup {data[k].id : k \in 1..Len(data)}]]
    ELSE [ret |-> FALSE, q |-> q]

\* the check "if not embeddings_data" is missing
after_embeddings_unchecked(data) == "exists"

\* lines 313-315: no records, return False; otherwise go on to the collection
after_embeddings(data) == IF data = <<>> THEN "done" ELSE "exists"

\* lines 335-337: except Exception: return False
setup_except == "false"

(* ---------------------- summarization pipeline ------------------------ *)

\* the rollup: the chunk texts of the conversation, concatenated in log order
RECURSIVE Concat(_)
Concat(ss) == IF ss = <<>> THEN <<>> ELSE Head(ss) \o Concat(Tail(ss))

Rollup(sums, c) ==
    LET chunks == ChunksOf(sums, c)
    IN  Concat([i \in 1..Len(chunks) |-> chunks[i].summary])

\* the half-open index range [start_idx, end_idx) of a batch of row ids
BatchStart(msgs, batch) == msgs[batch[1]].idx
BatchEnd(msgs, batch) == msgs[batch[Len(batch)]].idx + 1

(* --------------------------- processes --------------------------------- *)

NoResponse == [ok |-> TRUE, content |-> <<>>]

Idle == [conv |-> "none", role |-> "none", text |-> "none", idx |-> -1,
         batch |-> <<>>, resp |-> NoResponse, summary |-> <<>>,
         limit |-> 0, tail |-> <<>>, u0 |-> 0, done |-> 0]

\* (u0 and done are history, read by no action: the number of unarchived
\* messages when the running cycle was triggered, and its completed batches)

\* history, read by no action: the last summarizer failure of a conversation
\* (the batch, the chunk log and the archived rows at that moment) and how far
\* the retry of that batch has come: "failed", "retrying", "retried"
NoSnapshot == [state |-> "none", batch |-> <<>>, chunks |-> <<>>, arch |-> {}]

\* no function of chat_history.py has been called
NoCall == [prompt |-> <<>>, outcome |-> "none", value |-> <<>>]

\* setup_sss_vectordb is not running
NoSetup ==
    [pc |-> "idle", calls |-> 0, embeddings |-> <<>>, result |-> "none",
     log |-> <<>>, before |-> NoCollection]

Init ==
    /\ conversations = <<>>
    /\ messages = <<>>
    /\ summaries = <<>>
    /\ pc = [p \in Procs |-> "idle"]
    /\ local = [p \in Procs |-> Idle]
    /\ failed = [c \in Convs |-> NoSnapshot]
    /\ session = EmptyState
    /\ gemini = NoCall
    /\ qdrant = NoCollection
    /\ setup = NoSetup

UpsertConversation(p, c, u, fields) ==
    /\ pc[p] = "idle"
    /\ conversations' = upsert_conversation(conversations, c, u, fields)
    /\ UNCHANGED <<messages, summaries, pc, local, failed>>
    /\ UNCHANGED <<chat, vector>>

Inserting == {q \in Procs : pc[q] = "insert"}

\* save_message, lines 67-69: the SELECT, outside any transaction
SaveMessageSelect(p, c, role, text, bound) ==
    /\ pc[p] = "idle"
    /\ Len(messages) + Cardinality(Inserting) < bound
    /\ pc' = [pc EXCEPT ![p] = "insert"]
    /\ local' = [local EXCEPT ![p] = [Idle EXCEPT !.conv = c, !.role = role,
                    !.text = text, !.idx = next_idx(messages, c)]]
    /\ UNCHANGED <<conversations, messages, summaries, failed>>
    /\ UNCHANGED <<chat, vector>>

\* save_message, lines 70-74: the INSERT, committed; returns local[p].idx
SaveMessageInsert(p) ==
    /\ pc[p] = "insert"
    /\ messages' = insert_message(messages, local[p].conv, local[p].idx,
                                  local[p].role, local[p].text)
    /\ pc' = [pc EXCEPT ![p] = "idle"]
    /\ local' = [local EXCEPT ![p] = Idle]
    /\ UNCHANGED <<conversations, summaries, failed>>
    /\ UNCHANGED <<chat, vector>>

\* a compaction trigger, or the next round of a running cycle: select the batch
TakeNextArchivalBatch(p, c) ==
    /\ \/ pc[p] = "idle"
       \/ pc[p] = "take" /\ local[p].conv = c
    /\ LET batch == next_four_unarchived(messages, c)
       IN  IF batch = <<>>
           THEN /\ pc' = [pc EXCEPT ![p] = "idle"]
                /\ local' = [local EXCEPT ![p] = Idle]
                /\ UNCHANGED failed
           ELSE /\ pc' = [pc EXCEPT ![p] = "summarize"]
                /\ local' = [local EXCEPT ![p] =
                       [Idle EXCEPT !.conv = c, !.batch = batch,
                           !.u0 = IF pc[p] = "take" THEN local[p].u0
                                  ELSE Cardinality(UnarchivedOf(messages, c)),
                           !.done = IF pc[p] = "take" THEN local[p].done
                                    ELSE 0]]
                /\ failed' = [failed EXCEPT ![c] =
                       IF @.state = "failed" /\ @.batch = batch
                       THEN [@ EXCEPT !.state = "retrying"] ELSE @]
    /\ UNCHANGED <<conversations, messages, summaries>>
    /\ UNCHANGED <<chat, vector>>

\* the external call; a failure ends the cycle and writes nothing
\* (history: the failure is recorded in failed when track is set)
CallSummarizer(p, resp, track) ==
    /\ pc[p] = "summarize"
    /\ LET out == summarize_session_history(resp)
           c == local[p].conv
       IN  /\ IF out.raised
              THEN /\ pc' = [pc EXCEPT ![p] = "idle"]
                   /\ local' = [local EXCEPT ![p] = Idle]
              ELSE /\ pc' = [pc EXCEPT ![p] = "append"]
                   /\ local' = [local EXCEPT ![p].resp = resp,
                                             ![p].summary = out.value]
           /\ failed' = [failed EXCEPT ![c] =
                  IF resp.ok \/ ~track THEN @
                  ELSE [state |-> "failed", batch |-> local[p].batch,
                        chunks |-> ChunksOf(summaries, c),
                        arch |-> ArchivedOf(messages, c)]]
    /\ UNCHANGED <<conversations, messages, summaries>>
    /\ UNCHANGED <<chat, vector>>

AppendSummaryChunk(p) ==
    /\ pc[p] = "append"
    /\ Len(summaries) < MaxChunks
    /\ summaries' = append_chunk_summary(summaries, local[p].conv,
                        BatchStart(messages, local[p].batch),
                        BatchEnd(messages, local[p].batch), local[p].summary)
    /\ pc' = [pc EXCEPT ![p] = "archive"]
    /\ UNCHANGED <<conversations, messages, local, failed>>
    /\ UNCHANGED <<chat, vector>>

MarkArchived(p) ==
    /\ pc[p] = "archive"
    /\ messages' = archive_ids(messages, Range(local[p].batch))
    /\ pc' = [pc EXCEPT ![p] = "rollup"]
    /\ UNCHANGED <<conversations, summaries, local, failed>>
    /\ UNCHANGED <<chat, vector>>

RecomputeRollup(p) ==
    /\ pc[p] = "rollup"
    /\ conversations' = set_running_summary(conversations, local[p].conv,
                            Rollup(summaries, local[p].conv))
    /\ pc' = [pc EXCEPT ![p] = "take"]
    /\ local' = [local EXCEPT ![p] =
           [Idle EXCEPT !.conv = local[p].conv, !.u0 = local[p].u0,
                        !.done = local[p].done + 1]]
    /\ failed' = [failed EXCEPT ![local[p].conv] =
           IF @.state = "retrying" /\ @.batch = local[p].batch
           THEN [@ EXCEPT !.state = "retried"] ELSE @]
    /\ UNCHANGED <<messages, summaries>>
    /\ UNCHANGED <<chat, vector>>

\* context assembly, first read: the running summary
AssembleContextSummary(p, c, limit) ==
    /\ pc[p] = "idle"
    /\ pc' = [pc EXCEPT ![p] = "tail"]
    /\ local' = [local EXCEPT ![p] = [Idle EXCEPT !.conv = c, !.limit = limit,
                    !.summary = get_running_summary(conversations, c)]]
    /\ UNCHANGED <<conversations, messages, summaries, failed>>
    /\ UNCHANGED <<chat, vector>>

\* context assembly, second read: the tail of unarchived messages
AssembleContextTail(p) ==
    /\ pc[p] = "tail"
    /\ pc' = [pc EXCEPT ![p] = "context"]
    /\ local' = [local EXCEPT ![p].tail =
                    get_unarchived(messages, local[p].conv, local[p].limit)]
    /\ UNCHANGED <<conversations, messages, summaries, failed>>
    /\ UNCHANGED <<chat, vector>>

\* the context (local[p].summary, local[p].tail) is handed to the agent
ReturnContext(p) ==
    /\ pc[p] = "context"
    /\ pc' = [pc EXCEPT ![p] = "idle"]
    /\ local' = [local EXCEPT ![p] = Idle]
    /\ UNCHANGED <<conversations, messages, summaries, failed>>
    /\ UNCHANGED <<chat, vector>>

\* the process dies; what it committed stays
Crash(p) ==
    /\ pc[p] # "idle"
    /\ pc' = [pc EXCEPT ![p] = "idle"]
    /\ local' = [local EXCEPT ![p] = Idle]
    /\ UNCHANGED <<conversations, messages, summaries, failed>>
    /\ UNCHANGED <<chat, vector>>

\* await get_last_user_message(state, role, message, batch_size=, tail_size=)
GetLastUserMessage(role, message, batch_size, tail_size) ==
    /\ Len(GetHistory(session)) < MaxHistory
    /\ Len(session.chat_summary) < MaxSummary
    /\ LET out == get_last_user_message(session, role, message,
                                        batch_size, tail_size)
       IN  /\ session' = out.state
           /\ gemini' = [NoCall EXCEPT !.outcome =
                             IF out.raised THEN "raised" ELSE "returned"]
    /\ UNCHANGED <<store, pc, local, failed, vector>>

\* await summarize_session_history(state, last_n_message)
SummarizeSessionHistory(last_n_message, resp) ==
    /\ LET pr == summarize_session_history_prompt(session, last_n_message)
           out == summarize_session_history(resp)
       IN  gemini' =
               IF ~pr.called
               THEN [prompt |-> <<>>, outcome |-> "returned",
                     value |-> <<"No history available to summarize.">>]
               ELSE [prompt |-> pr.prompt,
                     outcome |-> IF out.raised THEN "raised" ELSE "returned",
                     value |-> out.value]
    /\ UNCHANGED <<store, pc, local, failed, session, vector>>

\* setup_sss_vectordb, lines 305-318: the embeddings
SetupCreateEmbeddings(out) ==
    /\ setup.pc = "idle"
    /\ setup.calls < MaxSetups
    /\ setup' =
           IF out.raised
           THEN [pc |-> "done", calls |-> setup.calls + 1, embeddings |-> <<>>,
                 result |-> setup_except, log |-> <<>>, before |-> qdrant]
           ELSE [pc |-> after_embeddings(out.data), calls |-> setup.calls + 1,
                 embeddings |-> out.data,
                 result |-> IF after_embeddings(out.data) = "done"
                            THEN "false" ELSE "none",
                 log |-> IF out.data = <<>> THEN <<>> ELSE <<"embedded">>,
                 before |-> qdrant]
    /\ UNCHANGED <<store, pc, local, failed, chat, qdrant>>

\* create_sss_collection, line 275
SetupCollectionExists(ok) ==
    /\ setup.pc = "exists"
    /\ setup' = [setup EXCEPT !.pc = IF collection_exists(qdrant, ok)
                                     THEN "delete" ELSE "create"]
    /\ UNCHANGED <<store, pc, local, failed, chat, qdrant>>

\* create_sss_collection, line 276: the result is not looked at
SetupDeleteCollection(ok) ==
    /\ setup.pc = "delete"
    /\ LET r == delete_collection(qdrant, ok)
       IN  /\ qdrant' = r.q
           /\ setup' = [setup EXCEPT !.pc = "create",
                           !.log = IF r.ret THEN Append(@, "deleted") ELSE @]
    /\ UNCHANGED <<store, pc, local, failed, chat>>

\* create_sss_collection, line 278, and setup_sss_vectordb, lines 318-324
SetupCreateCollection(ok) ==
    /\ setup.pc = "create"
    /\ LET vector_size ==
               IF setup.embeddings = <<>> THEN 0 ELSE setup.embeddings[1].dim
           r == create_collection(qdrant, vector_size, ok)
       IN  /\ qdrant' = r.q
           /\ setup' = IF r.ret
                       THEN [setup EXCEPT !.pc = "store",
                                          !.log = Append(@, "created")]
                       ELSE [setup EXCEPT !.pc = "done", !.result = "false"]
    /\ UNCHANGED <<store, pc, local, failed, chat>>

\* store_sss_embeddings and setup_sss_vectordb, lines 328-333
SetupStoreEmbeddings(ok) ==
    /\ setup.pc = "store"
    /\ LET r == add_points_batch(qdrant, setup.embeddings, ok)
       IN  /\ qdrant' = r.q
           /\ setup' = IF r.ret
                       THEN [setup EXCEPT !.pc = "done", !.result = "true",
                                          !.log = Append(@, "stored")]
                       ELSE [setup EXCEPT !.pc = "done", !.result = "false"]
    /\ UNCHANGED <<store, pc, local, failed, chat>>

\* the caller has the result; the run is over
SetupReturn ==
    /\ setup.pc = "done"
    /\ setup' = [setup EXCEPT !.pc = "idle"]
    /\ UNCHANGED <<store, pc, local, failed, chat, qdrant>>

Next ==
    \E p \in Procs :
        \/ \E c \in Convs, u \in Users, f \in ConcFieldMaps :
               UpsertConversation(p, c, u, f)
        \/ \E c \in Convs, r \in ConcRoles, t \in Texts :
               SaveMessageSelect(p, c, r, t, MaxMsgs)
        \/ SaveMessageInsert(p)
        \/ \E c \in Convs : TakeNextArchivalBatch(p, c)
        \/ \E resp \in GeminiResponses : CallSummarizer(p, resp, FALSE)
        \/ AppendSummaryChunk(p)
        \/ MarkArchived(p)
        \/ RecomputeRollup(p)
        \/ Crash(p)

Spec == Init /\ [][Next]_vars

\* one caller, one call at a time, no crash
NextSeq ==
    \E p \in SeqProcs :
        \/ \E c \in SeqConvs, u \in Users, f \in FieldMaps :
               UpsertConversation(p, c, u, f)
        \/ \E c \in SeqConvs, r \in Roles, t \in Texts :
               SaveMessageSelect(p, c, r, t, MaxMsgsSeq)
        \/ SaveMessageInsert(p)
        \/ \E c \in SeqConvs : TakeNextArchivalBatch(p, c)
        \/ \E resp \in GeminiResponses : CallSummarizer(p, resp, TRUE)
        \/ AppendSummaryChunk(p)
        \/ MarkArchived(p)
        \/ RecomputeRollup(p)
        \/ \E c \in SeqConvs, n \in SeqTailSizes : AssembleContextSummary(p, c, n)
        \/ AssembleContextTail(p)
        \/ ReturnContext(p)

SpecSeq == Init /\ [][NextSeq]_vars

\* one caller, a summarizer that answers, and a cycle that keeps running once
\* triggered: the driver is straight-line code around a call with a timeout
NextLive ==
    \E p \in SeqProcs :
        \/ \E c \in SeqConvs, u \in Users, f \in ConcFieldMaps :
               UpsertConversation(p, c, u, f)
        \/ \E c \in SeqConvs, r \in ConcRoles, t \in Texts :
               SaveMessageSelect(p, c, r, t, MaxMsgsLive)
        \/ SaveMessageInsert(p)
        \/ \E c \in SeqConvs : TakeNextArchivalBatch(p, c)
        \/ \E resp \in {r \in GeminiResponses : r.ok} :
               CallSummarizer(p, resp, FALSE)
        \/ AppendSummaryChunk(p)
        \/ MarkArchived(p)
        \/ RecomputeRollup(p)

CycleStep(p) ==
    \/ pc[p] = "take" /\ TakeNextArchivalBatch(p, local[p].conv)
    \/ \E resp \in {r \in GeminiResponses : r.ok} :
           CallSummarizer(p, resp, FALSE)
    \/ AppendSummaryChunk(p)
    \/ MarkArchived(p)
    \/ RecomputeRollup(p)

SpecLive ==
    Init /\ [][NextLive]_vars /\ \A p \in SeqProcs : WF_vars(CycleStep(p))

\* one caller, one call at a time, two conversations
NextTwo ==
    \E p \in SeqProcs :
        \/ \E c \in Convs, u \in Users, f \in ConcFieldMaps :
               UpsertConversation(p, c, u, f)
        \/ \E c \in Convs, r \in ConcRoles, t \in Texts :
               SaveMessageSelect(p, c, r, t, MaxMsgsTwo)
        \/ SaveMessageInsert(p)
        \/ \E c \in Convs : TakeNextArchivalBatch(p, c)
        \/ \E resp \in GeminiResponses : CallSummarizer(p, resp, FALSE)
        \/ AppendSummaryChunk(p)
        \/ MarkArchived(p)
        \/ RecomputeRollup(p)
        \/ \E c \in Convs, n \in TailSizes : AssembleContextSummary(p, c, n)
        \/ AssembleContextTail(p)
        \/ ReturnContext(p)

SpecTwo == Init /\ [][NextTwo]_vars

\* chat_history.py: one session, with or without the key "history"
InitChat ==
    /\ conversations = <<>>
    /\ messages = <<>>
    /\ summaries = <<>>
    /\ pc = [p \in Procs |-> "idle"]
    /\ local = [p \in Procs |-> Idle]
    /\ failed = [c \in Convs |-> NoSnapshot]
    /\ session \in {EmptyState, [EmptyState EXCEPT !.has_history = TRUE]}
    /\ gemini = NoCall
    /\ qdrant = NoCollection
    /\ setup = NoSetup

NextChat ==
    \/ \E role \in Roles, message \in ChatTexts,
          batch_size \in BatchSizes, tail_size \in ChatTailSizes :
           GetLastUserMessage(role, message, batch_size, tail_size)
    \/ \E n \in LastNs, resp \in GeminiResponses :
           SummarizeSessionHistory(n, resp)

SpecChat == InitChat /\ [][NextChat]_vars

\* vector_store.py: one caller of setup_sss_vectordb, with or without an
\* existing collection
InitVector ==
    /\ conversations = <<>>
    /\ messages = <<>>
    /\ summaries = <<>>
    /\ pc = [p \in Procs |-> "idle"]
    /\ local = [p \in Procs |-> Idle]
    /\ failed = [c \in Convs |-> NoSnapshot]
    /\ session = EmptyState
    /\ gemini = NoCall
    /\ qdrant \in {NoCollection, OldCollection}
    /\ setup = NoSetup

NextVector ==
    \/ \E out \in EmbeddingOutcomes : SetupCreateEmbeddings(out)
    \/ \E ok \in BOOLEAN : SetupCollectionExists(ok)
    \/ \E ok \in BOOLEAN : SetupDeleteCollection(ok)
    \/ \E ok \in BOOLEAN : SetupCreateCollection(ok)
    \/ \E ok \in BOOLEAN : SetupStoreEmbeddings(ok)
    \/ SetupReturn

SpecVector == InitVector /\ [][NextVector]_vars

(* ------------------------------ claims --------------------------------- *)

\* C1: with one save_message call at a time, the k-th call on a conversation
\* (k = 0..n-1) returns and stores index k: the call in progress is about to
\* return the number of rows the conversation has, and the stored idx values
\* are 0..n-1 in insertion order, without gap or duplicate.
C1_SequentialIndices ==
    \A c \in Convs :
        /\ IdxColumn(messages, c) =
               [k \in 1..Cardinality(RowsOf(messages, c)) |-> k - 1]
        /\ \A p \in Procs :
               pc[p] = "insert" /\ local[p].conv = c
                   => local[p].idx = Cardinality(RowsOf(messages, c))

\* five appends done and a sixth in progress, the first four rows archived
C1_Witness ==
    /\ pc["p1"] = "insert"
    /\ local["p1"].conv = "c1"
    /\ local["p1"].idx = 5
    /\ Cardinality(ArchivedOf(messages, "c1")) = 4

\* C2: no two message rows of one conversation share an idx, under every
\* interleaving of the SELECT MAX(idx) and the INSERT of concurrent callers.
C2_UniqueIdx ==
    \A i, j \in Ids :
        i # j /\ messages[i].conversation_id = messages[j].conversation_id
            => messages[i].idx # messages[j].idx

\* the store as one successful cycle leaves it, started from the chunk log
\* chunks0 and the archived rows arch0, for the batch and text of process p
SuccessResult(p, chunks0, arch0) ==
    LET c == local[p].conv
        chunk == [conversation_id |-> c,
                  start_idx |-> BatchStart(messages, local[p].batch),
                  end_idx |-> BatchEnd(messages, local[p].batch),
                  summary |-> local[p].summary]
        texts == [k \in 1..Len(chunks0) |-> chunks0[k].summary]
    IN  /\ ChunksOf(summaries', c) = Append(chunks0, chunk)
        /\ ArchivedOf(messages', c) = arch0 \cup Range(local[p].batch)
        /\ Exists(conversations, c) =>
               get_running_summary(conversations', c)
                   = Concat(texts) \o local[p].summary

\* C3: when the summarizer call fails (error, timeout) the cycle ends there:
\* no process goes on to append a chunk, archive or roll up with a failed
\* response, the failing step leaves conversations, messages and summaries
\* as they were, and next_four_unarchived still returns the same batch.
C3_FailedSummarizerWritesNothing ==
    /\ [](\A p \in Procs :
             pc[p] \in {"append", "archive", "rollup"} => local[p].resp.ok)
    /\ [][\A p \in Procs, resp \in GeminiResponses :
             ~resp.ok /\ CallSummarizer(p, resp, TRUE)
                 => /\ store' = store
                    /\ pc'[p] = "idle"
                    /\ next_four_unarchived(messages', local[p].conv)
                           = local[p].batch]_vars

\* a summarizer call has failed, the caller is back, the batch is still next
C3_Witness ==
    /\ failed["c1"].state = "failed"
    /\ pc["p1"] = "idle"
    /\ failed["c1"].batch # <<>>
    /\ next_four_unarchived(messages, "c1") = failed["c1"].batch

Covers(chunk, i) ==
    /\ chunk.conversation_id = messages[i].conversation_id
    /\ chunk.start_idx <= messages[i].idx
    /\ messages[i].idx < chunk.end_idx

\* C4: in every reachable state, between the store writes of a cycle and
\* after a crash included, every archived message is covered by a summary
\* chunk of its conversation and every chunk covers archived messages only.
C4_ArchivedIffCovered ==
    /\ \A i \in Ids :
           messages[i].archived = 1
               => \E k \in 1..Len(summaries) : Covers(summaries[k], i)
    /\ \A k \in 1..Len(summaries) : \A i \in Ids :
           Covers(summaries[k], i) => messages[i].archived = 1

\* a batch is selected and its outcome (archived, or failed) is not yet known
BatchOpen(p) == pc[p] \in {"summarize", "append", "archive"}

\* C5: two compaction cycles of one conversation never overlap (no batch is
\* selected while the outcome of another is open) and no message range is
\* summarized into two chunks.
C5_CyclesNeverOverlap ==
    /\ \A p, q \in Procs :
           p # q /\ BatchOpen(p) /\ BatchOpen(q)
               => local[p].conv # local[q].conv
    /\ \A k, l \in 1..Len(summaries) :
           k # l /\ summaries[k].conversation_id = summaries[l].conversation_id
               => \/ summaries[k].end_idx <= summaries[l].start_idx
                  \/ summaries[l].end_idx <= summaries[k].start_idx

\* the chunks of c, in creation order, tile [0, highest archived idx + 1)
Tiles(sums, msgs, c) ==
    LET chunks == ChunksOf(sums, c)
        arch == ArchivedOf(msgs, c)
        top == IF arch = {} THEN 0 ELSE Max({msgs[i].idx : i \in arch}) + 1
    IN  /\ \A k \in 1..Len(chunks) : chunks[k].start_idx < chunks[k].end_idx
        /\ \A k \in 1..Len(chunks) - 1 :
               chunks[k].end_idx = chunks[k + 1].start_idx
        /\ IF chunks = <<>> THEN top = 0
           ELSE chunks[1].start_idx = 0 /\ chunks[Len(chunks)].end_idx = top

\* C6: after every successful compaction cycle the chunks of the conversation,
\* in creation order, are contiguous, start at 0 and tile exactly
\* [0, highest archived idx + 1).
C6_ChunksTileArchivedPrefix ==
    [][\A p \in Procs :
          RecomputeRollup(p) => Tiles(summaries', messages', local[p].conv)]_vars

\* C7: next_four_unarchived returns nothing when fewer than 4 unarchived
\* messages exist, and otherwise exactly the 4 unarchived messages of the
\* conversation with the smallest idx, in ascending idx order (rowid order
\* among equal idx); the batch a cycle has taken is never partial.
C7_WholeOldestBatchOrNothing ==
    /\ \A c \in Convs :
           LET rows == next_four_unarchived(messages, c)
               un == UnarchivedOf(messages, c)
           IN  IF Cardinality(un) < BatchSize THEN rows = <<>>
               ELSE /\ Len(rows) = BatchSize
                    /\ Range(rows) \subseteq un
                    /\ \A k \in 1..BatchSize - 1 :
                           Before(messages, rows[k], rows[k + 1])
                    /\ \A i \in un \ Range(rows) :
                           Before(messages, rows[BatchSize], i)
    /\ \A p \in Procs :
           pc[p] = "summarize" => Len(local[p].batch) = BatchSize

\* a batch has been taken out of five unarchived rows, behind four archived
C7_Witness ==
    /\ pc["p1"] = "summarize"
    /\ Cardinality(UnarchivedOf(messages, "c1")) = 5
    /\ Cardinality(ArchivedOf(messages, "c1")) = 4
    /\ local["p1"].batch = next_four_unarchived(messages, "c1")

C9_RetryEqualsFirstSuccess ==
    /\ [](\A c \in Convs :
             failed[c].state = "failed"
                 => /\ ChunksOf(summaries, c) = failed[c].chunks
                    /\ ArchivedOf(messages, c) = failed[c].arch
                    /\ next_four_unarchived(messages, c) = failed[c].batch)
    /\ [][\A p \in Procs :
             /\ RecomputeRollup(p)
             /\ failed[local[p].conv].state = "retrying"
             /\ failed[local[p].conv].batch = local[p].batch
             => /\ SuccessResult(p, failed[local[p].conv].chunks,
                                 failed[local[p].conv].arch)
                /\ Cardinality({k \in 1..Len(summaries') :
                       /\ summaries'[k].conversation_id = local[p].conv
                       /\ summaries'[k].start_idx
                              = BatchStart(messages, local[p].batch)}) = 1]_vars

\* the second batch failed once and was compacted by the retry
C9_Witness ==
    /\ failed["c1"].state = "retried"
    /\ failed["c1"].chunks # <<>>
    /\ Len(ChunksOf(summaries, "c1")) = 2
    /\ Exists(conversations, "c1")

\* C10: archive_ids is idempotent (twice equals once), changes nothing when
\* the ids are already archived or the list is empty, and changes only the
\* archived flag of the rows whose id is given.
C10_ArchiveIdempotent ==
    \A ids \in SUBSET (1..Len(messages) + 1) :
        LET once == archive_ids(messages, ids)
        IN  /\ archive_ids(once, ids) = once
            /\ Len(once) = Len(messages)
            /\ (\A i \in ids \cap Ids : messages[i].archived = 1)
                   => once = messages
            /\ \A i \in Ids :
                   /\ once[i] = [messages[i] EXCEPT !.archived = once[i].archived]
                   /\ once[i].archived =
                          IF i \in ids THEN 1 ELSE messages[i].archived

\* archive_ids has been called twice with the same ids
C10_Witness ==
    /\ pc["p1"] = "rollup"
    /\ pc["p2"] = "rollup"
    /\ local["p1"].batch = local["p2"].batch

Min(a, b) == IF a <= b THEN a ELSE b

TailIds(rows) == {rows[k].id : k \in 1..Len(rows)}

\* C11: get_unarchived(conversation, limit) returns min(limit, number of
\* unarchived messages) rows: unarchived messages of that conversation only,
\* those with the largest idx, in ascending idx order; the tail a context
\* read has fetched is that result.
C11_NewestUnarchivedAscending ==
    /\ \A c \in Convs, limit \in 0..Len(messages) + 1 :
           LET rows == get_unarchived(messages, c, limit)
               un == UnarchivedOf(messages, c)
           IN  /\ Len(rows) = Min(limit, Cardinality(un))
               /\ \A k \in 1..Len(rows) :
                      /\ rows[k].id \in un
                      /\ rows[k] = Row(messages, rows[k].id)
               /\ \A k \in 1..Len(rows) - 1 :
                      Before(messages, rows[k].id, rows[k + 1].id)
               /\ \A i \in un \ TailIds(rows) : \A k \in 1..Len(rows) :
                      Before(messages, i, rows[k].id)
    /\ \A p \in Procs :
           pc[p] = "context"
               => local[p].tail
                      = get_unarchived(messages, local[p].conv, local[p].limit)

\* a tail of 2 out of 3 unarchived rows, behind 4 archived rows and beside a
\* message of the other conversation
C11_Witness ==
    /\ pc["p1"] = "context"
    /\ local["p1"].conv = "c1"
    /\ local["p1"].limit = 2
    /\ Len(local["p1"].tail) = 2
    /\ local["p1"].tail[1].idx = 5
    /\ Cardinality(ArchivedOf(messages, "c1")) = 4
    /\ Cardinality(UnarchivedOf(messages, "c1")) = 3
    /\ RowsOf(messages, "c2") # {}

\* C12: the context of one agent turn is the running summary of the
\* conversation and at most tail-size unarchived messages of it in ascending
\* idx order, however many messages the conversation has.
C12_ContextBounded ==
    \A p \in Procs :
        pc[p] = "context"
            => /\ Len(local[p].tail) <= local[p].limit
               /\ local[p].summary
                      = get_running_summary(conversations, local[p].conv)
               /\ \A k \in 1..Len(local[p].tail) :
                      /\ local[p].tail[k].archived = 0
                      /\ local[p].tail[k].conversation_id = local[p].conv
               /\ \A k \in 1..Len(local[p].tail) - 1 :
                      local[p].tail[k].idx < local[p].tail[k + 1].idx

\* nine unarchived messages, a context with the full tail of 8
C12_Witness ==
    /\ pc["p1"] = "context"
    /\ Cardinality(UnarchivedOf(messages, "c1")) = 9
    /\ Len(local["p1"].tail) = 8
    /\ local["p1"].limit = 8

\* C13: a cycle triggered with u unarchived messages, a summarizer that
\* answers and no append meanwhile ends after u \div 4 batches with u % 4
\* unarchived messages, and it does end: once a batch is taken the caller is
\* eventually idle again with fewer than 4 unarchived messages left.
C13_CycleDrainsWholeBatches ==
    /\ [][\A p \in Procs :
             pc[p] = "take" /\ pc'[p] = "idle"
                 => /\ local[p].done = local[p].u0 \div BatchSize
                    /\ Cardinality(UnarchivedOf(messages', local[p].conv))
                           = local[p].u0 % BatchSize]_vars
    /\ \A p \in SeqProcs, c \in SeqConvs :
           (pc[p] = "summarize" /\ local[p].conv = c)
               ~> (pc[p] = "idle"
                   /\ Cardinality(UnarchivedOf(messages, c)) < BatchSize)

\* a cycle triggered with 8 unarchived messages has done its second batch
C13_Witness ==
    /\ pc["p1"] = "take"
    /\ local["p1"].u0 = 8
    /\ local["p1"].done = 2
    /\ UnarchivedOf(messages, "c1") = {}

\* C14: upsert_conversation without extra fields is idempotent: the first
\* call creates the row of that id with the given user and the defaults and
\* touches no other row; a second call with the same id and any user id adds
\* no row and changes no column of the existing one.
C14_UpsertIdempotent ==
    \A c \in Convs, u \in Users, u2 \in Users \cup {"u2"} :
        LET once == upsert_conversation(conversations, c, u, <<>>)
            twice == upsert_conversation(once, c, u2, <<>>)
        IN  /\ DOMAIN once = DOMAIN conversations \cup {c}
            /\ \A x \in DOMAIN conversations : once[x] = conversations[x]
            /\ ~Exists(conversations, c) => once[c] = DefaultRow(u)
            /\ twice = once

\* the row exists with an agent and a running summary that are not defaults
C14_Witness ==
    /\ Exists(conversations, "c1")
    /\ conversations["c1"].active_agent = "billing"
    /\ conversations["c1"].running_summary # <<>>
    /\ pc["p1"] = "idle"

\* C15: a partial update of conversation fields on an id that has no row
\* leaves the conversations table unchanged (it creates no row).
C15_UpdateOfAbsentChangesNothing ==
    [][\A p \in Procs, c \in Convs, u \in Users, f \in FieldMaps :
          ( f # <<>> /\ ~Exists(conversations, c)
            /\ UpsertConversation(p, c, u, f) )
              => conversations' = conversations]_vars

\* C16: every message and every summary chunk in the store belongs to an
\* existing conversation.
C16_RowsBelongToConversation ==
    /\ \A i \in Ids : Exists(conversations, messages[i].conversation_id)
    /\ \A k \in 1..Len(summaries) :
           Exists(conversations, summaries[k].conversation_id)

\* C17: archival is monotonic and non-destructive: no step changes or removes
\* a row that is archived; an archived row is in no result of get_unarchived
\* or next_four_unarchived, in no tail or batch a caller holds; and the index
\* save_message computes is above the idx of every archived row.
C17_ArchivalMonotonic ==
    /\ [][\A i \in Ids :
             messages[i].archived = 1
                 => i <= Len(messages') /\ messages'[i] = messages[i]]_vars
    /\ [](\A c \in Convs : \A i \in ArchivedOf(messages, c) :
             /\ \A limit \in TailSizes \cup {-1} :
                    i \notin TailIds(get_unarchived(messages, c, limit))
             /\ i \notin Range(next_four_unarchived(messages, c))
             /\ messages[i].idx < next_idx(messages, c))
    /\ [](\A p \in Procs : \A i \in ArchivedOf(messages, local[p].conv) :
             /\ pc[p] = "context" => i \notin TailIds(local[p].tail)
             /\ pc[p] = "summarize" => i \notin Range(local[p].batch)
             /\ pc[p] = "insert" => messages[i].idx < local[p].idx)

\* four rows archived, a fifth appended after that, and a tail read
C17_Witness ==
    /\ pc["p1"] = "context" /\ local["p1"].conv = "c1"
    /\ Cardinality(ArchivedOf(messages, "c1")) = BatchSize
    /\ Len(local["p1"].tail) = 1
    /\ local["p1"].tail[1].idx = BatchSize

\* C18: the step that completes a compaction round leaves the conversation's
\* running summary equal to the replay of its chunk log under the rollup rule.
C18_RunningSummaryIsReplay ==
    [][\A p \in Procs :
          RecomputeRollup(p)
              => get_running_summary(conversations', local[p].conv)
                     = Rollup(summaries', local[p].conv)]_vars

\* what the store holds of conversation c: its messages by id, its chunks in
\* creation order, and its conversation row
ProjMessages(msgs, c) == [i \in RowsOf(msgs, c) |-> msgs[i]]

SameConversation(c) ==
    /\ ProjMessages(messages', c) = ProjMessages(messages, c)
    /\ ChunksOf(summaries', c) = ChunksOf(summaries, c)
    /\ Exists(conversations', c) <=> Exists(conversations, c)
    /\ Exists(conversations, c) => conversations'[c] = conversations[c]

OnlyConv(msgs, c) == SelectSeq(msgs, LAMBDA r : r.conversation_id = c)

\* C19: operations on different conversations are independent: a write on
\* conversation A leaves the messages, indices, chunks and fields of every
\* other conversation B unchanged, the reads change nothing, and the index
\* save_message computes for A is the one it computes with the rows of every
\* other conversation removed.
C19_ConversationsIndependent ==
    /\ [][\A p \in Procs, c \in Convs :
             /\ ( /\ local[p].conv # c
                  /\ \/ SaveMessageInsert(p) \/ AppendSummaryChunk(p)
                     \/ MarkArchived(p) \/ RecomputeRollup(p) )
                    => SameConversation(c)
             /\ \A a \in Convs \ {c}, u \in Users, f \in FieldMaps :
                    UpsertConversation(p, a, u, f) => SameConversation(c)
             /\ ( \/ \E r \in Roles, t \in Texts, b \in {MaxMsgs, MaxMsgsTwo} :
                         SaveMessageSelect(p, c, r, t, b)
                  \/ TakeNextArchivalBatch(p, c)
                  \/ \E limit \in TailSizes : AssembleContextSummary(p, c, limit)
                  \/ AssembleContextTail(p) )
                    => UNCHANGED store]_vars
    /\ [](\A c \in Convs :
             next_idx(messages, c) = next_idx(OnlyConv(messages, c), c))
    /\ [](\A p \in Procs :
             /\ pc[p] = "summarize"
                    => Range(local[p].batch)
                           \subseteq RowsOf(messages, local[p].conv)
             /\ pc[p] = "context"
                    => TailIds(local[p].tail)
                           \subseteq RowsOf(messages, local[p].conv))

\* a batch of one conversation has been archived while the other conversation
\* holds four unarchived messages
C19_Witness ==
    /\ pc["p1"] = "rollup" /\ local["p1"].conv = "c1"
    /\ Cardinality(ArchivedOf(messages, "c1")) = BatchSize
    /\ Cardinality(UnarchivedOf(messages, "c2")) = BatchSize
    /\ Exists(conversations, "c2")

\* C20: append_chunk_summary adds exactly one row to the summary log, the one
\* it was given, after the rows already there, and leaves the conversations
\* table (running_summary and the other fields) and every message (its
\* archived flag included) unchanged.
C20_AppendChunkFrame ==
    [][\A p \in Procs :
          AppendSummaryChunk(p)
              => /\ Len(summaries') = Len(summaries) + 1
                 /\ SubSeq(summaries', 1, Len(summaries)) = summaries
                 /\ summaries'[Len(summaries')].conversation_id = local[p].conv
                 /\ summaries'[Len(summaries')].summary = local[p].summary
                 /\ conversations' = conversations
                 /\ messages' = messages]_vars

\* a second chunk has been appended for a conversation that has a row
C20_Witness ==
    /\ pc["p1"] = "archive" /\ local["p1"].conv = "c1"
    /\ Len(ChunksOf(summaries, "c1")) = 2
    /\ Exists(conversations, "c1")

\* the role-tagged transcript of a batch: one line "role: message" per
\* message, in the order of the batch
Transcript(batch) ==
    JoinLines([k \in 1..Len(batch) |->
                  <<batch[k].role, ": ", batch[k].message>>])

\* C21: the prompt summarize_session_history hands to Gemini for a non-empty
\* batch holds the role-tagged transcript of the batch, every message once
\* and in order, and not the placeholder "No history available.".
C21_PromptHoldsTranscript ==
    [][\A n \in LastNs, resp \in GeminiResponses :
          LET batch == LastN(GetHistory(session), n)
          IN  SummarizeSessionHistory(n, resp) /\ batch # <<>>
                  => /\ gemini'.prompt = PromptOf(Transcript(batch))
                     /\ gemini'.prompt # PromptOf(NoHistory)]_vars

\* what a call adds to the stored summary: one line "role: message"
WithLine(summary, role, message) ==
    IF summary = <<>> THEN <<role, ": ", message>>
    ELSE summary \o <<NL, role, ": ", message>>

\* C22: while the history holds at most batch_size entries, a call of
\* get_last_user_message leaves under state[summary_only] the value stored
\* before the call followed by exactly one new line "role: message".
C22_SummaryGrowsByOneLine ==
    [][\A role \in Roles, message \in ChatTexts,
          batch_size \in BatchSizes, tail_size \in ChatTailSizes :
          ( /\ GetLastUserMessage(role, message, batch_size, tail_size)
            /\ Len(session'.chat_history) <= batch_size )
              => session'.chat_summary
                     = WithLine(session.chat_summary, role, message)]_vars

\* C23: a call of get_last_user_message after which the history holds more
\* than batch_size entries returns without raising, and every call adds its
\* message to the history the next call starts from.
C23_SummarizingCallReturns ==
    [][\A role \in Roles, message \in ChatTexts,
          batch_size \in BatchSizes, tail_size \in ChatTailSizes :
          GetLastUserMessage(role, message, batch_size, tail_size)
              => /\ Len(session'.chat_history) > batch_size
                        => gemini'.outcome = "returned"
                 /\ Len(session'.chat_history)
                        = Len(session.chat_history) + 1]_vars

\* C24: setup_sss_vectordb never raises; it returns True only after the
\* embeddings were produced, then the collection created, then the batch
\* stored, in that order; the collection is changed only in a run that has
\* produced a non-empty embedding list; and a run whose embedding step yields
\* no records returns False and leaves the collection as it found it.
C24_SetupAllOrFalse ==
    /\ [](setup.result \in {"none", "true", "false"})
    /\ [](setup.result = "true"
             => /\ setup.embeddings # <<>>
                /\ setup.log \in {<<"embedded", "created", "stored">>,
                                  <<"embedded", "deleted", "created", "stored">>}
                /\ qdrant.exists
                /\ \A k \in 1..Len(setup.embeddings) :
                       setup.embeddings[k].id \in qdrant.points)
    /\ [][qdrant' # qdrant => setup.embeddings # <<>>]_vars
    /\ []((setup.pc = "done" /\ setup.embeddings = <<>>)
             => setup.result = "false" /\ qdrant = setup.before)

\* a run that got no records has ended with False beside the old collection
C24_Witness ==
    /\ setup.pc = "done" /\ setup.embeddings = <<>> /\ setup.result = "false"
    /\ setup.calls = 2
    /\ qdrant.exists /\ qdrant.points # {}

====
